---- MODULE Spec2Model ----
(***************************************************************************)
(* A model of Assets/DMG/create_background.py, the script that renders the *)
(* DMG installer background: the import guard, main, and the passes of    *)
(* create_dmg_background over the canvas, with the file system, the font  *)
(* catalog and the text measurer as the environment.                      *)
(***************************************************************************)
EXTENDS Integers, Sequences, FiniteSets, TLC

VARIABLES
    pc,               \* the statement the process is at; "done" once it has terminated
    pilAvailable,     \* environment: whether `from PIL import ...` succeeds
    bound,            \* the module names bound by the import statements executed so far
    argv,             \* sys.argv: the script name followed by the arguments
    output_path,      \* main's local output_path (a path, or <<>> before line 151)
    dirs,             \* file system: the directories that exist
    made,             \* the directories os.makedirs has created in this run
    files,            \* file system: the files written, each with its decoded size
    mkdirRefused,     \* the OS refused a directory creation (permissions, bad path)
    saveRefused,      \* the OS refused the write of the PNG (permissions, bad path)
    saveCount,        \* number of image.save calls made
    width, height,    \* create_dmg_background's parameters
    imageSize,        \* size of the canvas, <<>> before Image.new
    buffer,           \* canvas: the colour painted on each scanline by the gradient
    drawing,          \* the most recent drawing pass: its coordinates and text layout
    passes,           \* the passes completed so far, in order
    fontEnv,          \* environment: what each candidate font file does when probed
    fontIdx,          \* index of the for loop over font_paths
    title_font,       \* handle of the title font
    instruction_font, \* handle of the body font
    stdout,           \* what has been printed
    exitStatus,       \* the exit status of the process, NoStatus while it runs
    exitVia           \* how it terminated: "sys.exit", "end", or the uncaught exception

envVars == <<pilAvailable, argv, width, height>>
fsVars == <<dirs, made, files, mkdirRefused, saveRefused, saveCount>>
fontVars == <<fontEnv, fontIdx, title_font, instruction_font>>
canvasVars == <<imageSize, buffer, drawing, passes>>
procVars == <<pc, bound, output_path, stdout, exitStatus, exitVia>>
vars == <<envVars, fsVars, fontVars, canvasVars, procVars>>

----------------------------------------------------------------------------
(* Bounds of the model *)

\* at most this many command-line arguments after the script name
MaxArgs == 2
\* canvas heights 2..MaxHeight are tried by the gradient, besides the default
MaxHeight == 64
\* measured text widths range over 0..width + MaxOverhang
MaxOverhang == 8

----------------------------------------------------------------------------
(* Constants of the program *)

DefaultWidth == 540
DefaultHeight == 300
TitleY == 30
InstructionY == 65
GradientBase == 240
GradientSpan == 15
RedOffset == 5
arrow_start_x == 320
arrow_start_y == 140
arrow_end_x == 370
arrow_end_y == 140
cat_x == 50
cat_y == 200
TailSteps == 20
VersionDX == 60
VersionDY == 25

title_text == "BangoCat for macOS"
instruction_text == "Drag BangoCat.app to the Applications folder to install"
version_text == "v1.5.2"
text_color == <<80, 80, 80>>
accent_color == <<70, 130, 180>>
arrow_color == <<150, 150, 150>>
cat_color == <<200, 200, 200>>
version_color == <<180, 180, 180>>
White == <<255, 255, 255>>

font_paths ==
    << "/System/Library/Fonts/Helvetica.ttc",
       "/System/Library/Fonts/Arial.ttf",
       "/Library/Fonts/Arial.ttf" >>

MsgNoPil == "PIL (Pillow) not available. Install with: pip install Pillow"
MsgUsage == "Usage: python3 create_background.py <output_path>"
MsgCreated == "DMG background created: "
MsgCreatedAt == "Professional DMG background created at: "

\* the interpreter's exit status for an uncaught exception, and sys.exit(1)'s
FailureStatus == 1
SuccessStatus == 0
\* no exit status yet: the process is running
NoStatus == SuccessStatus - 1

----------------------------------------------------------------------------
(* Paths: a path is the sequence of its components, "/" first when absolute *)

ScriptName == <<"create_background.py">>
AbsPath == <<"/", "tmp", "dmg", "background.png">>
RelPath == <<"build", "background.png">>
BarePath == <<"background.png">>
Paths == {AbsPath, RelPath, BarePath}

\* os.path.dirname: everything before the last separator ("" for a bare name)
Dirname(p) == SubSeq(p, 1, Len(p) - 1)

\* the path and every directory above it
Ancestors(d) == {SubSeq(d, 1, k) : k \in 1..Len(d)}

AllDirs == UNION {Ancestors(Dirname(p)) : p \in Paths}
Root == <<"/">>
AncestorClosed(D) == \A d \in D : Ancestors(d) \subseteq D

\* the argument vectors: the script name and up to MaxArgs arguments
ArgVectors == UNION {[1..n -> Paths] : n \in 0..MaxArgs}

----------------------------------------------------------------------------
(* Arithmetic of the source *)

\* Python's int() of the non-integer quotient num/den, den > 0: truncation
IntPart(num, den) ==
    IF num >= 0 THEN num \div den ELSE -((-num) \div den)

\* Python's a // b for b > 0: floor division
FloorDiv(a, b) == a \div b

\* a mutation of GradientValue: the base of the ramp is off by one
GradientValueSteep(y, h) == IntPart((GradientBase + 1) * h + GradientSpan * y, h)
\* line 26: int(240 + (15 * y / height))
GradientValue(y, h) == IntPart(GradientBase * h + GradientSpan * y, h)

\* line 27
GradientColor(y, h) ==
    <<GradientValue(y, h) - RedOffset, GradientValue(y, h), GradientValue(y, h)>>

\* a mutation of CenterX: the free space is not halved
CenterXNoHalving(w, textWidth) == w - textWidth
\* lines 67 and 74: (width - text_width) // 2
CenterX(w, textWidth) == FloorDiv(w - textWidth, 2)

\* line 129: cat_y + 10 + int(5 * (i / 20) ** 2)
TailY(i) == cat_y + 10 + IntPart(5 * i * i, TailSteps * TailSteps)
\* line 128
TailX(i) == cat_x - 5 + i

----------------------------------------------------------------------------
(* Exceptions *)

FontExceptions == {"OSError", "MemoryError"}
\* what a candidate font file does: it is missing, it loads at both sizes, or
\* ImageFont.truetype raises at the title size or at the body size
FontOutcomes ==
    {<<"missing", "">>, <<"loads", "">>}
        \cup {<<"title", e>> : e \in FontExceptions}
        \cup {<<"body", e>> : e \in FontExceptions}

\* the outcomes in which ImageFont.truetype fails only the way it documents,
\* with OSError
OSErrorOutcomes == {o \in FontOutcomes : o[2] \in {"", "OSError"}}

\* line 52: except (OSError, IOError)
InnerCatches(e) == e = "OSError"
\* a mutation of OuterCatches: the outer handler is as narrow as the inner one
OuterCatchesOnlyOSError(e) == e = "OSError"
\* line 59: except Exception
OuterCatches(e) == e \in FontExceptions

----------------------------------------------------------------------------
(* The order of the statements of create_dmg_background *)

\* a mutation of Steps: the image is saved before the version label is drawing
StepsSaveBeforeVersion ==
    << "new_image", "gradient", "font_try", "font_loop", "font_default",
       "title", "instruction", "arrow_line", "arrow_head", "cat_body",
       "cat_head", "cat_ears", "cat_tail", "save", "version", "confirm" >>
\* lines 16-143, in the order of the source
Steps ==
    << "new_image", "gradient", "font_try", "font_loop", "font_default",
       "title", "instruction", "arrow_line", "arrow_head", "cat_body",
       "cat_head", "cat_ears", "cat_tail", "version", "save", "confirm" >>

\* the statement after step s; after the last one the function returns to main
After(s) ==
    LET i == CHOOSE k \in 1..Len(Steps) : Steps[k] = s
    IN  IF i < Len(Steps) THEN Steps[i + 1] ELSE "main_confirm"

----------------------------------------------------------------------------
(* Helpers for the actions *)

NoDraw ==
    [pass |-> "none", pts |-> {}, text |-> "", font |-> "", measured |-> 0, fill |-> White]

Shape(pass, pts, fill) ==
    [pass |-> pass, pts |-> pts, text |-> "", font |-> "", measured |-> 0, fill |-> fill]

Text(pass, pt, text, font, measured, fill) ==
    [pass |-> pass, pts |-> {pt}, text |-> text, font |-> font, measured |-> measured,
     fill |-> fill]

\* the process terminates with the status, through sys.exit, the end of the
\* script, or the named uncaught exception
Terminate(status, via) ==
    /\ pc' = "done"
    /\ exitStatus' = status
    /\ exitVia' = via

\* a drawing pass: it leaves its record, is logged, and the next statement follows
Draw(name, record) ==
    /\ drawing' = record
    /\ passes' = Append(passes, name)
    /\ pc' = After(name)
    /\ UNCHANGED <<imageSize, buffer>>
    /\ UNCHANGED <<envVars, fsVars, fontVars>>
    /\ UNCHANGED <<bound, output_path, stdout, exitStatus, exitVia>>

----------------------------------------------------------------------------
(* Initial states *)

InitCommon ==
    /\ bound = {}
    /\ output_path = <<>>
    /\ made = {}
    /\ files = {}
    /\ mkdirRefused = FALSE
    /\ saveRefused = FALSE
    /\ saveCount = 0
    /\ imageSize = <<>>
    /\ buffer = <<>>
    /\ drawing = NoDraw
    /\ passes = <<>>
    /\ fontEnv = <<>>
    /\ fontIdx = 1
    /\ title_font = "None"
    /\ instruction_font = "None"
    /\ stdout = <<>>
    /\ exitStatus = NoStatus
    /\ exitVia = "running"

\* the process starts at the top of the script, with the default canvas size
Init ==
    /\ InitCommon
    /\ pc = "import"
    /\ pilAvailable \in BOOLEAN
    /\ argv \in {<<ScriptName>> \o a : a \in ArgVectors}
    /\ dirs \in {D \in SUBSET AllDirs : Root \in D /\ AncestorClosed(D)}
    /\ width = DefaultWidth
    /\ height = DefaultHeight

----------------------------------------------------------------------------
(* The import guard, lines 7-13 *)

\* lines 7-10: the imports run in order; a failing import binds nothing after it
Import ==
    /\ pc = "import"
    /\ IF pilAvailable
       THEN /\ bound' = {"PIL", "sys", "os"}
            /\ pc' = "main"
       ELSE /\ bound' = {}
            /\ pc' = "import_except"
    /\ UNCHANGED <<envVars, fsVars, fontVars, canvasVars>>
    /\ UNCHANGED <<output_path, stdout, exitStatus, exitVia>>

\* lines 11-13: print, then sys.exit(1), which needs the name sys
ImportExcept ==
    /\ pc = "import_except"
    /\ stdout' = Append(stdout, [text |-> MsgNoPil, path |-> <<>>])
    /\ IF "sys" \in bound
       THEN Terminate(FailureStatus, "sys.exit")
       ELSE Terminate(FailureStatus, "NameError")
    /\ UNCHANGED <<envVars, fsVars, fontVars, canvasVars>>
    /\ UNCHANGED <<bound, output_path>>

----------------------------------------------------------------------------
(* main, lines 146-157 *)

\* a mutation of UsageError: extra arguments are let through
UsageErrorTooFewOnly(a) == Len(a) < 2
\* line 147: len(sys.argv) != 2
UsageError(a) == Len(a) # 2

\* lines 147-151
Main ==
    /\ pc = "main"
    /\ IF UsageError(argv)
       THEN /\ stdout' = Append(stdout, [text |-> MsgUsage, path |-> <<>>])
            /\ Terminate(FailureStatus, "sys.exit")
            /\ UNCHANGED output_path
       ELSE /\ output_path' = argv[2]
            /\ pc' = "makedirs"
            /\ UNCHANGED <<stdout, exitStatus, exitVia>>
    /\ UNCHANGED <<envVars, fsVars, fontVars, canvasVars>>
    /\ UNCHANGED bound

\* line 154: os.makedirs(os.path.dirname(output_path), exist_ok=True)
MakeDirs ==
    /\ pc = "makedirs"
    /\ LET d == Dirname(output_path)
           missing == Ancestors(d) \ dirs
       IN  \/ /\ d = <<>>
              /\ Terminate(FailureStatus, "FileNotFoundError")
              /\ UNCHANGED <<dirs, made, mkdirRefused>>
           \/ /\ d # <<>>
              /\ missing = {}
              /\ pc' = "new_image"
              /\ UNCHANGED <<dirs, made, mkdirRefused, exitStatus, exitVia>>
           \/ /\ d # <<>>
              /\ missing # {}
              /\ dirs' = dirs \cup missing
              /\ made' = made \cup missing
              /\ pc' = "new_image"
              /\ UNCHANGED <<mkdirRefused, exitStatus, exitVia>>
           \/ /\ d # <<>>
              /\ missing # {}
              /\ mkdirRefused' = TRUE
              /\ Terminate(FailureStatus, "PermissionError")
              /\ UNCHANGED <<dirs, made>>
    /\ UNCHANGED <<envVars, fontVars, canvasVars>>
    /\ UNCHANGED <<files, saveRefused, saveCount>>
    /\ UNCHANGED <<bound, output_path, stdout>>

\* line 157, and the end of the script
MainConfirm ==
    /\ pc = "main_confirm"
    /\ stdout' = Append(stdout, [text |-> MsgCreatedAt, path |-> output_path])
    /\ Terminate(SuccessStatus, "end")
    /\ UNCHANGED <<envVars, fsVars, fontVars, canvasVars>>
    /\ UNCHANGED <<bound, output_path>>

----------------------------------------------------------------------------
(* create_dmg_background, lines 16-143 *)

\* lines 20-21: Image.new("RGB", (width, height), "white")
NewImage ==
    /\ pc = "new_image"
    /\ imageSize' = <<width, height>>
    /\ buffer' = [y \in 0..(height - 1) |-> White]
    /\ passes' = Append(passes, "new_image")
    /\ pc' = After("new_image")
    /\ UNCHANGED drawing
    /\ UNCHANGED <<envVars, fsVars, fontVars>>
    /\ UNCHANGED <<bound, output_path, stdout, exitStatus, exitVia>>

\* lines 24-28: one draw.line from (0, y) to (width, y) per scanline
Gradient ==
    /\ pc = "gradient"
    /\ buffer' = [y \in 0..(height - 1) |-> GradientColor(y, height)]
    /\ drawing' = Shape("gradient",
                      UNION {{<<0, y>>, <<width, y>>} : y \in 0..(height - 1)},
                      GradientColor(height - 1, height))
    /\ passes' = Append(passes, "gradient")
    /\ pc' = After("gradient")
    /\ UNCHANGED imageSize
    /\ UNCHANGED <<envVars, fsVars, fontVars>>
    /\ UNCHANGED <<bound, output_path, stdout, exitStatus, exitVia>>

\* lines 35-44: the try block is entered and both handles start as None; the
\* font catalog the loop is about to probe is fixed here, each candidate with
\* an outcome of O
FontTry(O) ==
    /\ pc = "font_try"
    /\ fontEnv' \in [1..Len(font_paths) -> O]
    /\ title_font' = "None"
    /\ instruction_font' = "None"
    /\ fontIdx' = 1
    /\ pc' = After("font_try")
    /\ UNCHANGED <<envVars, fsVars, canvasVars>>
    /\ UNCHANGED <<bound, output_path, stdout, exitStatus, exitVia>>

\* where the for loop goes on a `continue` or a missing file: the next
\* candidate, or past the loop
LoopOn ==
    IF fontIdx < Len(font_paths)
    THEN /\ fontIdx' = fontIdx + 1
         /\ pc' = "font_loop"
    ELSE /\ fontIdx' = fontIdx
         /\ pc' = After("font_loop")

\* an exception e raised by ImageFont.truetype in the loop body, after the
\* title handle has taken the value t: lines 52-53, else lines 59-61, else uncaught
Raised(e, t) ==
    IF InnerCatches(e)
    THEN /\ title_font' = t
         /\ UNCHANGED instruction_font
         /\ LoopOn
         /\ UNCHANGED <<exitStatus, exitVia>>
    ELSE IF OuterCatches(e)
    THEN /\ title_font' = "default"
         /\ instruction_font' = "default"
         /\ pc' = After("font_default")
         /\ UNCHANGED <<fontIdx, exitStatus, exitVia>>
    ELSE /\ title_font' = t
         /\ UNCHANGED <<instruction_font, fontIdx>>
         /\ Terminate(FailureStatus, e)

\* lines 46-53: one iteration of the loop over font_paths
ProbeFont ==
    /\ pc = "font_loop"
    /\ LET outcome == fontEnv[fontIdx][1]
           exc == fontEnv[fontIdx][2]
           path == font_paths[fontIdx]
       IN  CASE outcome = "missing" ->
                   /\ LoopOn
                   /\ UNCHANGED <<title_font, instruction_font, exitStatus, exitVia>>
             [] outcome = "loads" ->
                   /\ title_font' = path
                   /\ instruction_font' = path
                   /\ pc' = After("font_loop")
                   /\ UNCHANGED <<fontIdx, exitStatus, exitVia>>
             [] outcome = "title" -> Raised(exc, title_font)
             [] outcome = "body" -> Raised(exc, path)
    /\ UNCHANGED fontEnv
    /\ UNCHANGED <<envVars, fsVars, canvasVars>>
    /\ UNCHANGED <<bound, output_path, stdout>>

\* lines 55-57: if not title_font
FontDefault ==
    /\ pc = "font_default"
    /\ IF title_font = "None"
       THEN /\ title_font' = "default"
            /\ instruction_font' = "default"
       ELSE UNCHANGED <<title_font, instruction_font>>
    /\ pc' = After("font_default")
    /\ UNCHANGED <<fontEnv, fontIdx>>
    /\ UNCHANGED <<envVars, fsVars, canvasVars>>
    /\ UNCHANGED <<bound, output_path, stdout, exitStatus, exitVia>>

\* the widths draw.textbbox may report: every width, or a few of them
TextWidths == 0..(width + MaxOverhang)
SampleTextWidths == {0, width \div 2, width + MaxOverhang}

\* lines 64-68: measure the title, centre it, draw it
DrawTitle(W) ==
    /\ pc = "title"
    /\ \E title_width \in W :
        Draw("title",
             Text("title", <<CenterX(width, title_width), TitleY>>, title_text,
                  title_font, title_width, accent_color))

\* lines 71-77: measure the instruction, centre it, draw it
DrawInstruction(W) ==
    /\ pc = "instruction"
    /\ \E instruction_width \in W :
        Draw("instruction",
             Text("instruction", <<CenterX(width, instruction_width), InstructionY>>,
                  instruction_text, instruction_font, instruction_width, text_color))

\* lines 87-91
ArrowLine ==
    /\ pc = "arrow_line"
    /\ Draw("arrow_line",
            Shape("arrow_line",
                  {<<arrow_start_x, arrow_start_y>>, <<arrow_end_x, arrow_end_y>>},
                  arrow_color))

\* lines 94-101
ArrowHead ==
    /\ pc = "arrow_head"
    /\ Draw("arrow_head",
            Shape("arrow_head",
                  {<<arrow_end_x, arrow_end_y>>,
                   <<arrow_end_x - 8, arrow_end_y - 4>>,
                   <<arrow_end_x - 8, arrow_end_y + 4>>},
                  arrow_color))

\* line 110
CatBody ==
    /\ pc = "cat_body"
    /\ Draw("cat_body",
            Shape("cat_body", {<<cat_x, cat_y>>, <<cat_x + 40, cat_y + 25>>}, cat_color))

\* line 113
CatHead ==
    /\ pc = "cat_head"
    /\ Draw("cat_head",
            Shape("cat_head", {<<cat_x + 35, cat_y - 15>>, <<cat_x + 55, cat_y + 5>>},
                  cat_color))

\* lines 116-124: both ears
CatEars ==
    /\ pc = "cat_ears"
    /\ Draw("cat_ears",
            Shape("cat_ears",
                  {<<cat_x + 38, cat_y - 15>>, <<cat_x + 42, cat_y - 25>>,
                   <<cat_x + 46, cat_y - 15>>,
                   <<cat_x + 47, cat_y - 15>>, <<cat_x + 51, cat_y - 25>>,
                   <<cat_x + 55, cat_y - 15>>},
                  cat_color))

\* lines 127-130: the ellipses of the tail
CatTail ==
    /\ pc = "cat_tail"
    /\ Draw("cat_tail",
            Shape("cat_tail",
                  UNION {{<<TailX(i), TailY(i)>>, <<TailX(i) + 4, TailY(i) + 8>>} :
                           i \in 0..(TailSteps - 1)},
                  cat_color))

\* lines 133-139
Version ==
    /\ pc = "version"
    /\ Draw("version",
            Text("version", <<width - VersionDX, height - VersionDY>>, version_text,
                 instruction_font, 0, version_color))

\* a mutation of SaveRaises: the failure of the write is swallowed and the
\* function carries on
SaveRaisesSwallowed ==
    /\ saveRefused' = TRUE
    /\ pc' = After("save")
    /\ UNCHANGED <<files, passes, exitStatus, exitVia>>

\* line 142 raising: no handler in create_dmg_background (lines 141-143) nor in
\* main (lines 151-157), so the exception ends the process
SaveRaises ==
    /\ saveRefused' = TRUE
    /\ Terminate(FailureStatus, "OSError")
    /\ UNCHANGED <<files, passes>>

\* line 142: image.save(output_path, "PNG", optimize=True); the write succeeds
\* or the OS refuses it
Save ==
    /\ pc = "save"
    /\ saveCount' = saveCount + 1
    /\ \/ /\ files' = files \cup {[path |-> output_path, size |-> imageSize]}
          /\ passes' = Append(passes, "save")
          /\ pc' = After("save")
          /\ UNCHANGED <<saveRefused, exitStatus, exitVia>>
       \/ SaveRaises
    /\ UNCHANGED <<dirs, made, mkdirRefused>>
    /\ UNCHANGED <<imageSize, buffer, drawing>>
    /\ UNCHANGED <<envVars, fontVars>>
    /\ UNCHANGED <<bound, output_path, stdout>>

\* line 143
Confirm ==
    /\ pc = "confirm"
    /\ stdout' = Append(stdout, [text |-> MsgCreated, path |-> output_path])
    /\ pc' = After("confirm")
    /\ UNCHANGED <<envVars, fsVars, fontVars, canvasVars>>
    /\ UNCHANGED <<bound, output_path, exitStatus, exitVia>>

----------------------------------------------------------------------------
(* The run of the script *)

\* a step of the script
Next ==
    \/ Import
    \/ ImportExcept
    \/ Main
    \/ MakeDirs
    \/ NewImage
    \/ Gradient
    \/ FontTry(FontOutcomes)
    \/ ProbeFont
    \/ FontDefault
    \/ DrawTitle(SampleTextWidths)
    \/ DrawInstruction(SampleTextWidths)
    \/ ArrowLine
    \/ ArrowHead
    \/ CatBody
    \/ CatHead
    \/ CatEars
    \/ CatTail
    \/ Version
    \/ Save
    \/ Confirm
    \/ MainConfirm

Spec == Init /\ [][Next]_vars

\* the runs in which a font fails to load only with OSError
NextOSError ==
    \/ Import
    \/ ImportExcept
    \/ Main
    \/ MakeDirs
    \/ NewImage
    \/ Gradient
    \/ FontTry(OSErrorOutcomes)
    \/ ProbeFont
    \/ FontDefault
    \/ DrawTitle(SampleTextWidths)
    \/ DrawInstruction(SampleTextWidths)
    \/ ArrowLine
    \/ ArrowHead
    \/ CatBody
    \/ CatHead
    \/ CatEars
    \/ CatTail
    \/ Version
    \/ Save
    \/ Confirm
    \/ MainConfirm

SpecOSError == Init /\ [][NextOSError]_vars

----------------------------------------------------------------------------
(* create_dmg_background called with a canvas height of its own: the         *)
(* allocation and the gradient pass, for every height of a bounded range     *)

GradientHeights == (2..MaxHeight) \cup {DefaultHeight}

\* the state at the call of create_dmg_background in a run of main
InCall ==
    /\ InitCommon
    /\ pilAvailable = TRUE
    /\ argv = <<ScriptName, AbsPath>>
    /\ dirs = AllDirs
    /\ width = DefaultWidth

InitGradient ==
    /\ InCall
    /\ pc = "new_image"
    /\ height \in GradientHeights

NextGradient ==
    \/ NewImage
    \/ Gradient

SpecGradient == InitGradient /\ [][NextGradient]_vars

----------------------------------------------------------------------------
(* The two centred text passes, for every width the measurer may report     *)

Handles == {"default", font_paths[1]}

InitLayout ==
    /\ bound = {"PIL", "sys", "os"}
    /\ output_path = AbsPath
    /\ made = {}
    /\ files = {}
    /\ mkdirRefused = FALSE
    /\ saveRefused = FALSE
    /\ saveCount = 0
    /\ pilAvailable = TRUE
    /\ argv = <<ScriptName, AbsPath>>
    /\ dirs = AllDirs
    /\ width = DefaultWidth
    /\ height = DefaultHeight
    /\ imageSize = <<width, height>>
    /\ buffer = [y \in 0..(height - 1) |-> GradientColor(y, height)]
    /\ drawing = NoDraw
    /\ passes = <<"new_image", "gradient">>
    /\ fontEnv = <<>>
    /\ fontIdx = 1
    /\ title_font \in Handles
    /\ instruction_font = title_font
    /\ stdout = <<>>
    /\ exitStatus = NoStatus
    /\ exitVia = "running"
    /\ pc = "title"

NextLayout ==
    \/ DrawTitle(TextWidths)
    \/ DrawInstruction(TextWidths)

SpecLayout == InitLayout /\ [][NextLayout]_vars

----------------------------------------------------------------------------
(* Properties *)

Contains(seq, x) == \E i \in DOMAIN seq : seq[i] = x

IsPrefix(a, b) == Len(a) <= Len(b) /\ \A i \in 1..Len(a) : a[i] = b[i]

Printed(text) == \E i \in DOMAIN stdout : stdout[i].text = text

Exited == pc = "done"

\* the candidates the loop has probed so far
Probed ==
    IF fontEnv = <<>> THEN {}
    ELSE IF pc = "font_loop" THEN 1..(fontIdx - 1)
    ELSE 1..fontIdx

\* some probed candidate raised while loading
FontLoadFailed ==
    \E i \in Probed : fontEnv[i][1] \in {"title", "body"}

\* the passes the claim lists, in its order
ExpectedPasses ==
    << "new_image", "gradient", "title", "instruction", "arrow_line", "arrow_head",
       "cat_body", "cat_head", "cat_ears", "cat_tail", "version", "save" >>

\* C1: a run of main on a valid writable output path (absolute, relative, or a
\* bare file name) ends with the parent directory existing, a 540x300 PNG at
\* the path, both confirmations printed and exit status 0; the parent
\* directory exists before the write is attempted.
C1_ValidPathRunSucceeds ==
    (pilAvailable /\ Len(argv) = 2 /\ ~mkdirRefused /\ ~saveRefused)
        => /\ saveCount > 0 => Dirname(argv[2]) \in dirs
           /\ Exited =>
                /\ Dirname(argv[2]) \in dirs \cup {<<>>}
                /\ [path |-> argv[2], size |-> <<540, 300>>] \in files
                /\ stdout = << [text |-> MsgCreated, path |-> argv[2]],
                               [text |-> MsgCreatedAt, path |-> argv[2]] >>
                /\ exitStatus = 0

\* C2: once drawing starts, both font handles come from the first candidate
\* that exists and loads at both sizes, or both are the default font when no
\* candidate does.
C2_FontsFromFirstLoadableCandidate ==
    (pc = "title" \/ Contains(passes, "title"))
        => LET loadable == {i \in 1..Len(font_paths) : fontEnv[i][1] = "loads"}
           IN  IF loadable # {}
               THEN LET first == CHOOSE i \in loadable : \A j \in loadable : i <= j
                    IN  /\ title_font = font_paths[first]
                        /\ instruction_font = font_paths[first]
               ELSE /\ title_font = "default"
                    /\ instruction_font = "default"

\* C3: with an argument count other than one, main prints the usage message
\* and exits non-zero, and no directory is created, no pass runs, no file is
\* written.
C3_WrongArgCountOnlyPrintsUsage ==
    Len(argv) # 2
        => /\ made = {}
           /\ imageSize = <<>>
           /\ passes = <<>>
           /\ saveCount = 0
           /\ files = {}
           /\ (Exited /\ pilAvailable)
                => /\ stdout = <<[text |-> MsgUsage, path |-> <<>>]>>
                   /\ exitStatus = 1
                   /\ exitVia = "sys.exit"

C3_Witness ==
    /\ Exited
    /\ pilAvailable
    /\ Len(argv) = 3
    /\ Printed(MsgUsage)
    /\ exitStatus = 1

\* C4: when the imaging library cannot be imported, the diagnostic is printed
\* and the process ends non-zero through its own exit call, before any
\* argument handling, directory creation, drawing or write.
C4_MissingPilExitsThroughSysExit ==
    (~pilAvailable /\ Exited)
        => /\ stdout = <<[text |-> MsgNoPil, path |-> <<>>]>>
           /\ exitStatus # 0
           /\ exitVia = "sys.exit"
           /\ output_path = <<>>
           /\ made = {}
           /\ passes = <<>>
           /\ files = {}

\* C5: a failure to load a candidate font, at either size and whatever the
\* exception, never ends the run: the text passes are drawing, and unless the
\* write itself is refused the file is written and the exit status is 0.
C5_FontFailureNeverEscalates ==
    FontLoadFailed
        => /\ pc \in {"font_loop", "font_default"} => exitStatus = NoStatus
           /\ Exited
                => /\ Contains(passes, "title")
                   /\ Contains(passes, "instruction")
                   /\ saveCount = 1
                   /\ IF saveRefused
                      THEN exitVia = "OSError"
                      ELSE /\ exitVia = "end"
                           /\ exitStatus = 0
                           /\ [path |-> output_path, size |-> imageSize] \in files

C5_Witness ==
    /\ Exited
    /\ Probed = 1..3
    /\ fontEnv[1] = <<"title", "OSError">>
    /\ fontEnv[2] = <<"body", "OSError">>
    /\ fontEnv[3] = <<"body", "MemoryError">>
    /\ exitStatus = 0
    /\ files # {}

\* C6: the passes run in the order canvas, gradient, title, instruction,
\* arrow line, arrow head, body, head, ears, tail, version label, save; the
\* save is made once, after every drawing pass, and a confirmation is printed
\* only after the save succeeded.
C6_PassesInOrderSaveOnceThenConfirm ==
    /\ IsPrefix(passes, ExpectedPasses)
    /\ saveCount <= 1
    /\ saveCount = 1 => Len(passes) >= Len(ExpectedPasses) - 1
    /\ pc \in {"confirm", "main_confirm"} => saveCount = 1
    /\ (Printed(MsgCreated) \/ Printed(MsgCreatedAt))
         => /\ passes = ExpectedPasses
            /\ saveCount = 1
            /\ files # {}
    /\ Printed(MsgCreatedAt) => Printed(MsgCreated)

C6_Witness ==
    /\ Exited
    /\ passes = ExpectedPasses
    /\ saveCount = 1
    /\ Len(stdout) = 2

\* C7: a refused save propagates: the process ends there with a non-zero
\* status, the save is not retried and no confirmation is printed.
C7_SaveFailurePropagates ==
    saveRefused
        => /\ Exited
           /\ exitStatus # 0
           /\ exitStatus # NoStatus
           /\ exitVia = "OSError"
           /\ saveCount = 1
           /\ ~Printed(MsgCreated)
           /\ ~Printed(MsgCreatedAt)
           /\ files = {}

C7_Witness ==
    /\ saveRefused
    /\ Exited
    /\ Contains(passes, "version")
    /\ exitStatus = 1

\* C8: at the default canvas size every coordinate passed to a drawing call
\* lies in [0, width) x [0, height).
C8_CoordinatesInsideCanvas ==
    \A p \in drawing.pts :
        /\ 0 <= p[1] /\ p[1] < width
        /\ 0 <= p[2] /\ p[2] < height

\* C9: after the gradient pass every scanline y has the colour (g-5, g, g)
\* with g the integer part of 240 + 15*y/H, g does not decrease with y, the
\* first and the last scanline differ, and every channel is within 0..255.
C9_GradientFormulaMonotoneInRange ==
    Contains(passes, "gradient")
        => /\ DOMAIN buffer = 0..(height - 1)
           /\ \A y \in 0..(height - 1) :
                LET g == buffer[y][2]
                IN  /\ buffer[y] = <<g - 5, g, g>>
                    /\ g * height <= 240 * height + 15 * y
                    /\ 240 * height + 15 * y < (g + 1) * height
                    /\ \A k \in 1..3 : buffer[y][k] \in 0..255
           /\ \A y \in 1..(height - 1) : buffer[y - 1][2] <= buffer[y][2]
           /\ buffer[0] # buffer[height - 1]

C9_Witness ==
    /\ Contains(passes, "gradient")
    /\ height = 300
    /\ buffer[0] = <<235, 240, 240>>
    /\ buffer[150] = <<242, 247, 247>>
    /\ buffer[299] = <<249, 254, 254>>

\* C10: the title and the instruction are drawing at an x within one pixel of
\* (width - w)/2 for every measured width w, wider than the canvas included,
\* the title at y = 30 and the instruction at y = 65.
C10_TextCentredWithinOnePixel ==
    drawing.pass \in {"title", "instruction"}
        => LET pt == CHOOSE p \in drawing.pts : TRUE
               x == pt[1]
           IN /\ drawing.pts = {pt}
              /\ pt[2] = (IF drawing.pass = "title" THEN 30 ELSE 65)
              /\ drawing.text = (IF drawing.pass = "title" THEN title_text
                               ELSE instruction_text)
              /\ (width - drawing.measured) - 2 * x <= 2
              /\ 2 * x - (width - drawing.measured) <= 2

C10_Witness ==
    /\ drawing.pass = "instruction"
    /\ drawing.measured = width + 1
    /\ drawing.pts = {<<-1, 65>>}
    /\ Contains(passes, "title")

====
